---- MODULE Spec2Model ----
(***************************************************************************)
(* Model of aiohttp_dynamic: DynamicRouter (routing.py) and                *)
(* DynamicMiddleware (middlewares.py).                                     *)
(*                                                                         *)
(* Strings are sequences of symbols; a symbol stands for a fixed chunk of  *)
(* characters ("api", ".", "example.com", "*", "/", "{x}", ...).  String   *)
(* equality, str.endswith and the mask regular expression are computed on  *)
(* these sequences.  An optional value (None or a value) is a sequence of  *)
(* length 0 or 1.                                                          *)
(***************************************************************************)
EXTENDS Integers, Sequences, FiniteSets, TLC

\* routes: DynamicRouter._routes; handlers: DynamicMiddleware._handlers;
\* op: the call made last and what it returned; request: the frame of the
\* request inside DynamicMiddleware.__call__, None when there is none
VARIABLES routes, handlers, op, request

vars == <<routes, handlers, op, request>>

None == <<>>

Some(x) == <<x>>

(***************************************************************************)
(* Bounds                                                                  *)
(***************************************************************************)
MaxDomains == 3

MaxEntries == 2

MaxMw == 3

\* frames the interpreter allows on the call stack (sys.getrecursionlimit())
RecursionLimit == 3

(***************************************************************************)
(* Input alphabets                                                         *)
(***************************************************************************)
MaskEx == <<"*", ".", "example.com">>

ApiEx == <<"api", ".", "example.com">>

OtherEx == <<"other", ".", "example.com">>

OtherOrg == <<"other", ".", "org">>

RawDomains == {MaskEx, ApiEx}

StarDomain == <<"*">>

OrderDomains == {MaskEx, ApiEx, OtherOrg, StarDomain}

Hosts == {Some(ApiEx), Some(OtherEx), None}

OrderHosts == Hosts \cup {Some(OtherOrg)}

PathA == <<"/", "a">>

PathB == <<"/", "b">>

PathVar == <<"/", "{x}">>

PathBad == <<"/", "{">>

ValidPaths == {PathA, PathVar}

RawPaths == ValidPaths \cup {PathBad}

RequestPaths == {PathA, PathB}

\* the (domain, path) pairs of the calls: two paths under one domain, one path
\* under two domains
Targets == {<<MaskEx, PathA>>, <<MaskEx, PathVar>>, <<ApiEx, PathA>>}

METH_ANY == "*"

METH_ALL == {"CONNECT", "HEAD", "GET", "DELETE", "OPTIONS", "PATCH", "POST", "PUT", "TRACE"}

MethodArgs == {"GET", "post", METH_ANY}

HandlerArgs == {"h1", "h2"}

(***************************************************************************)
(* str.upper() on the method names in use                                  *)
(***************************************************************************)
upper(m) == CASE m = "get" -> "GET" [] m = "post" -> "POST" [] OTHER -> m

(***************************************************************************)
(* list.sort for lists shorter than 64 elements: the initial run is found  *)
(* (and reversed when strictly descending), the rest is inserted by binary *)
(* insertion.  a is a sequence of indices, lt the set of pairs <<i, j>>    *)
(* for which the key of i compares less than the key of j.                 *)
(***************************************************************************)
Reverse(s) == [i \in 1..Len(s) |-> s[Len(s) + 1 - i]]

RECURSIVE count_run(_, _, _, _)
count_run(a, lt, i, descending) ==
    IF i > Len(a) THEN i - 1
    ELSE IF (<<a[i], a[i - 1]>> \in lt) = descending
         THEN count_run(a, lt, i + 1, descending)
         ELSE i - 1

RECURSIVE binary_search(_, _, _, _, _)
binary_search(a, lt, pivot, l, r) ==
    IF l >= r THEN l
    ELSE LET p == l + ((r - l) \div 2)
         IN IF <<pivot, a[p]>> \in lt
            THEN binary_search(a, lt, pivot, l, p)
            ELSE binary_search(a, lt, pivot, p + 1, r)

RECURSIVE binarysort(_, _, _)
binarysort(a, lt, start) ==
    IF start > Len(a) THEN a
    ELSE LET pivot == a[start]
             l == binary_search(a, lt, pivot, 1, start)
             moved == SubSeq(a, 1, l - 1) \o <<pivot>> \o SubSeq(a, l, start - 1)
                      \o SubSeq(a, start + 1, Len(a))
         IN binarysort(moved, lt, start + 1)

list_sort(a, lt) ==
    IF Len(a) < 2 THEN a
    ELSE LET descending == <<a[2], a[1]>> \in lt
             n == count_run(a, lt, 3, descending)
             run == IF descending
                    THEN Reverse(SubSeq(a, 1, n)) \o SubSeq(a, n + 1, Len(a))
                    ELSE a
         IN binarysort(run, lt, n + 1)

\* the elements of s in the order of the indices perm
RECURSIVE Permuted(_, _)
Permuted(s, perm) ==
    IF perm = <<>> THEN <<>> ELSE <<s[Head(perm)]>> \o Permuted(s, Tail(perm))

SortBy(s, lt) == Permuted(s, list_sort([i \in 1..Len(s) |-> i], lt))

(***************************************************************************)
(* aiohttp Domain / MaskDomain as used by DomainRouter                     *)
(***************************************************************************)
RECURSIVE mask_fullmatch(_, _)
mask_fullmatch(mask, host) ==
    IF mask = <<>> THEN host = <<>>
    ELSE IF Head(mask) = "*"
         THEN \/ mask_fullmatch(Tail(mask), host)
              \/ (host # <<>> /\ mask_fullmatch(mask, Tail(host)))
         ELSE /\ host # <<>>
              /\ Head(host) = Head(mask)
              /\ mask_fullmatch(Tail(mask), Tail(host))

IsMask(domain) == \E i \in 1..Len(domain) : domain[i] = "*"

match_domain(raw_domain, host) ==
    IF IsMask(raw_domain) THEN mask_fullmatch(raw_domain, host)
    ELSE host = raw_domain

DomainRouter(domain) == [raw_domain |-> domain, routes |-> <<>>]

raw_domain_match(r, raw_domain) == r.raw_domain = raw_domain

\* mutant: a request without host is served by the catch-all domain
domain_match_catch_all(r, domain) ==
    IF domain = None THEN r.raw_domain = <<"*">>
    ELSE match_domain(r.raw_domain, domain[1])

domain_match(r, domain) == domain # None /\ match_domain(r.raw_domain, domain[1])

(***************************************************************************)
(* Path quoting on the symbols in use                                      *)
(***************************************************************************)
_requote_path(value) == [i \in 1..Len(value) |-> IF value[i] = " " THEN "%20" ELSE value[i]]

_unquote_path(value) == [i \in 1..Len(value) |-> IF value[i] = "%20" THEN " " ELSE value[i]]

(***************************************************************************)
(* AbstractPathRouter: the method table _routes is a set of entries        *)
(* [key, method, handler]: key is the dict key, (method, handler) the      *)
(* ResourceRoute stored under it.                                          *)
(***************************************************************************)
Keys(table) == {e.key : e \in table}

RouteAt(table, key) == CHOOSE e \in table : e.key = key

SetRoute(table, key, method, handler) ==
    {e \in table : e.key # key} \cup {[key |-> key, method |-> method, handler |-> handler]}

\* mutant: an existing entry is overwritten whatever the overwrite flag says
PathRouter_add_handler_always(r, method_arg, handler, overwrite, overwrite_widecast) ==
    LET method == upper(method_arg)
        put(key) == [r |-> [r EXCEPT !.routes = SetRoute(r.routes, key, method, handler)],
                     ret |-> TRUE]
    IN IF method = METH_ANY
       THEN put(method)
       ELSE IF method \in Keys(r.routes)
            THEN put(method)
            ELSE IF METH_ANY \in Keys(r.routes)
                 THEN IF overwrite_widecast THEN put(METH_ANY) ELSE put(method)
                 ELSE put(method)

PathRouter_add_handler(r, method_arg, handler, overwrite, overwrite_widecast) ==
    LET method == upper(method_arg)
        put(key) == [r |-> [r EXCEPT !.routes = SetRoute(r.routes, key, method, handler)],
                     ret |-> TRUE]
        fail == [r |-> r, ret |-> FALSE]
    IN IF method = METH_ANY
       THEN IF method \in Keys(r.routes)
            THEN IF overwrite THEN put(method) ELSE fail
            ELSE put(method)
       ELSE IF method \in Keys(r.routes)
            THEN IF overwrite THEN put(method) ELSE fail
            ELSE IF METH_ANY \in Keys(r.routes)
                 THEN IF overwrite_widecast THEN put(METH_ANY) ELSE put(method)
                 ELSE put(method)

\* mutant: the wildcard entry is preferred to the strict one
get_handler_route_widecast_first(r, method_arg, match_widecast) ==
    LET method == upper(method_arg)
    IN IF match_widecast /\ METH_ANY \in Keys(r.routes) THEN Some(RouteAt(r.routes, METH_ANY))
       ELSE IF method \in Keys(r.routes) THEN Some(RouteAt(r.routes, method))
            ELSE None

get_handler_route(r, method_arg, match_widecast) ==
    LET method == upper(method_arg)
    IN IF method \in Keys(r.routes) THEN Some(RouteAt(r.routes, method))
       ELSE IF match_widecast /\ METH_ANY \in Keys(r.routes)
            THEN Some(RouteAt(r.routes, METH_ANY))
            ELSE None

get_handler(r, method_arg, match_widecast) ==
    LET method == upper(method_arg)
    IN IF method \in Keys(r.routes) THEN Some(RouteAt(r.routes, method).handler)
       ELSE IF match_widecast /\ METH_ANY \in Keys(r.routes)
            THEN Some(RouteAt(r.routes, METH_ANY).handler)
            ELSE None

\* mutant: deleting the wildcard empties the method table
PathRouter_del_handler_clear(r, method_arg) ==
    LET method == upper(method_arg)
    IN IF method \in Keys(r.routes)
       THEN [r |-> [r EXCEPT !.routes = IF method = METH_ANY THEN {}
                                         ELSE {e \in r.routes : e.key # method}],
             ret |-> TRUE]
       ELSE [r |-> r, ret |-> FALSE]

\* mutant: a strict method without an entry of its own deletes the wildcard
PathRouter_del_handler_widecast(r, method_arg) ==
    LET method == upper(method_arg)
    IN IF method \in Keys(r.routes)
       THEN [r |-> [r EXCEPT !.routes = {e \in r.routes : e.key # method}], ret |-> TRUE]
       ELSE IF METH_ANY \in Keys(r.routes)
            THEN [r |-> [r EXCEPT !.routes = {e \in r.routes : e.key # METH_ANY}], ret |-> TRUE]
            ELSE [r |-> r, ret |-> FALSE]

PathRouter_del_handler(r, method_arg) ==
    LET method == upper(method_arg)
    IN IF method \in Keys(r.routes)
       THEN [r |-> [r EXCEPT !.routes = {e \in r.routes : e.key # method}], ret |-> TRUE]
       ELSE [r |-> r, ret |-> FALSE]

allowed_methods(r) == IF METH_ANY \in Keys(r.routes) THEN METH_ALL ELSE Keys(r.routes)

(***************************************************************************)
(* PlainPathRouter / DynamicPathRouter                                     *)
(***************************************************************************)
VarSymbols == {"{x}"}

BraceSymbols == {"{", "}"}

NotGood == {"/"} \cup BraceSymbols \cup VarSymbols

IsDynamic(raw_path) == \E i \in 1..Len(raw_path) : raw_path[i] \in BraceSymbols \cup VarSymbols

\* DynamicPathRouter.__init__ raises ValueError on a part with a brace that
\* is not a {var} group
PathRouterRaises(raw_path) == \E i \in 1..Len(raw_path) : raw_path[i] \in BraceSymbols

PathRouter(raw_path) == [raw_path |-> raw_path, routes |-> {}]

raw_match(r, path) == r.raw_path = path

MaxOf(S) == CHOOSE k \in S : \A j \in S : j <= k

RECURSIVE pattern_fullmatch(_, _)
pattern_fullmatch(pattern, path) ==
    IF pattern = <<>> THEN (IF path = <<>> THEN Some({}) ELSE None)
    ELSE IF Head(pattern) \in VarSymbols
         THEN LET after(k) == pattern_fullmatch(Tail(pattern), SubSeq(path, k + 1, Len(path)))
                  ks == {k \in 1..Len(path) :
                           /\ \A i \in 1..k : path[i] \notin NotGood
                           /\ after(k) # None}
              IN IF ks = {} THEN None
                 ELSE LET k == MaxOf(ks)
                      IN Some({<<Head(pattern), _unquote_path(SubSeq(path, 1, k))>>}
                              \cup after(k)[1])
         ELSE IF path # <<>> /\ Head(path) = _requote_path(<<Head(pattern)>>)[1]
              THEN pattern_fullmatch(Tail(pattern), Tail(path))
              ELSE None

match_info(r, path) ==
    IF IsDynamic(r.raw_path)
    THEN pattern_fullmatch(r.raw_path, path)
    ELSE IF _requote_path(r.raw_path) = path THEN Some({}) ELSE None

(***************************************************************************)
(* DomainRouter                                                            *)
(***************************************************************************)
RouterIndex(d, raw_path) ==
    LET S == {i \in 1..Len(d.routes) : raw_match(d.routes[i], raw_path)}
    IN IF S = {} THEN 0 ELSE CHOOSE i \in S : \A j \in S : i <= j

get_router(d, raw_path) ==
    IF RouterIndex(d, raw_path) = 0 THEN None ELSE Some(d.routes[RouterIndex(d, raw_path)])

\* mutant: an overwriting add_router appends the fresh matcher and leaves the
\* old one in the list
add_router_append(d, raw_path, overwrite) ==
    LET i == RouterIndex(d, raw_path)
    IN IF i # 0 /\ ~overwrite
       THEN [d |-> d, index |-> i]
       ELSE [d |-> [d EXCEPT !.routes = Append(d.routes, PathRouter(raw_path))],
             index |-> Len(d.routes) + 1]

\* mutant: an overwritten matcher is taken out and the fresh one appended
add_router_moved(d, raw_path, overwrite) ==
    LET i == RouterIndex(d, raw_path)
    IN IF i # 0
       THEN IF overwrite
            THEN [d |-> [d EXCEPT !.routes =
                           SubSeq(d.routes, 1, i - 1) \o SubSeq(d.routes, i + 1, Len(d.routes))
                             \o <<PathRouter(raw_path)>>],
                  index |-> Len(d.routes)]
            ELSE [d |-> d, index |-> i]
       ELSE [d |-> [d EXCEPT !.routes = Append(d.routes, PathRouter(raw_path))],
             index |-> Len(d.routes) + 1]

\* add_router: the domain afterwards and the index of the returned router;
\* the caller checks PathRouterRaises before a router is constructed
add_router(d, raw_path, overwrite) ==
    LET i == RouterIndex(d, raw_path)
    IN IF i # 0
       THEN IF overwrite
            THEN [d |-> [d EXCEPT !.routes[i] = PathRouter(raw_path)], index |-> i]
            ELSE [d |-> d, index |-> i]
       ELSE [d |-> [d EXCEPT !.routes = Append(d.routes, PathRouter(raw_path))],
             index |-> Len(d.routes) + 1]

add_router_raises(d, raw_path, overwrite) ==
    /\ (RouterIndex(d, raw_path) = 0 \/ overwrite)
    /\ PathRouterRaises(raw_path)

RemoveAt(s, i) == SubSeq(s, 1, i - 1) \o SubSeq(s, i + 1, Len(s))

del_router(d, raw_path) ==
    LET i == RouterIndex(d, raw_path)
    IN IF i # 0
       THEN [d |-> [d EXCEPT !.routes = RemoveAt(d.routes, i)], ret |-> TRUE]
       ELSE [d |-> d, ret |-> FALSE]

NoResult == [match_info |-> None, route |-> None, allowed_methods |-> {}]

\* mutant: a matched path without a handler for the method is reported like
\* an unmatched path
RECURSIVE DomainRouter_resolve_from_no405(_, _, _, _)
DomainRouter_resolve_from_no405(d, i, path, method_arg) ==
    IF i > Len(d.routes) THEN NoResult
    ELSE LET r == d.routes[i]
             info == match_info(r, path)
         IN IF info = None
            THEN DomainRouter_resolve_from_no405(d, i + 1, path, method_arg)
            ELSE LET existing_handler_route == get_handler_route(r, upper(method_arg), TRUE)
                 IN IF existing_handler_route = None
                    THEN NoResult
                    ELSE [match_info |-> info, route |-> existing_handler_route,
                          allowed_methods |-> allowed_methods(r)]

RECURSIVE DomainRouter_resolve_from(_, _, _, _)
DomainRouter_resolve_from(d, i, path, method_arg) ==
    IF i > Len(d.routes) THEN NoResult
    ELSE LET r == d.routes[i]
             info == match_info(r, path)
         IN IF info = None
            THEN DomainRouter_resolve_from(d, i + 1, path, method_arg)
            ELSE LET method == upper(method_arg)
                     existing_handler_route == get_handler_route(r, method, TRUE)
                 IN IF existing_handler_route = None
                    THEN [match_info |-> None, route |-> None,
                          allowed_methods |-> allowed_methods(r)]
                    ELSE [match_info |-> info, route |-> existing_handler_route,
                          allowed_methods |-> allowed_methods(r)]

\* mutant: a matcher without a handler for the method is passed over when a
\* later matching matcher has one
DomainRouter_resolve_fallthrough(d, path, method_arg) ==
    LET S == {j \in 1..Len(d.routes) :
                /\ match_info(d.routes[j], path) # None
                /\ get_handler_route(d.routes[j], method_arg, TRUE) # None}
    IN IF S = {} THEN DomainRouter_resolve_from(d, 1, path, method_arg)
       ELSE DomainRouter_resolve_from(d, CHOOSE j \in S : \A k \in S : j <= k, path, method_arg)

DomainRouter_resolve(d, path, method_arg) == DomainRouter_resolve_from(d, 1, path, method_arg)

(***************************************************************************)
(* DynamicRouter                                                           *)
(***************************************************************************)
DomainIndex(rs, raw_domain) ==
    LET S == {i \in 1..Len(rs) : raw_domain_match(rs[i], raw_domain)}
    IN IF S = {} THEN 0 ELSE CHOOSE i \in S : \A j \in S : i <= j

\* the sort key: cmp(x, y) = 1 if x.domain_match(y.raw_domain) else -1, and
\* list.sort asks only whether cmp(x, y) < 0
DomainLt(rs) ==
    {<<i, j>> \in (1..Len(rs)) \X (1..Len(rs)) : ~domain_match(rs[i], Some(rs[j].raw_domain))}

sort_domains(rs) == SortBy(rs, DomainLt(rs))

add_domain(rs, raw_domain, overwrite) ==
    LET i == DomainIndex(rs, raw_domain)
    IN IF i # 0
       THEN IF overwrite
            THEN sort_domains([rs EXCEPT ![i] = DomainRouter(raw_domain)])
            ELSE rs
       ELSE sort_domains(Append(rs, DomainRouter(raw_domain)))

get_domain(rs, raw_domain) ==
    IF DomainIndex(rs, raw_domain) = 0 THEN None ELSE Some(rs[DomainIndex(rs, raw_domain)])

contains_domain(rs, raw_domain) == \E i \in 1..Len(rs) : raw_domain_match(rs[i], raw_domain)

del_domain(rs, raw_domain) ==
    LET i == DomainIndex(rs, raw_domain)
    IN IF i # 0
       THEN [routes |-> RemoveAt(rs, i), ret |-> TRUE]
       ELSE [routes |-> rs, ret |-> FALSE]

\* mutant: the path router is always told to overwrite the wildcard
DynamicRouter_add_handler_widecast(rs, method, path, handler, domain, overwrite, overwrite_widecast) ==
    LET rs1 == add_domain(rs, domain, FALSE)
        i == DomainIndex(rs1, domain)
    IN IF add_router_raises(rs1[i], path, FALSE)
       THEN [routes |-> rs1, ret |-> FALSE, raised |-> TRUE]
       ELSE LET ar == add_router(rs1[i], path, FALSE)
                ah == PathRouter_add_handler(ar.d.routes[ar.index], method, handler,
                                             overwrite, TRUE)
            IN [routes |-> [rs1 EXCEPT ![i] = [ar.d EXCEPT !.routes[ar.index] = ah.r]],
                ret |-> ah.ret, raised |-> FALSE]

\* mutant: add_domain is called with its default overwrite=True
DynamicRouter_add_handler_fresh_domain(rs, method, path, handler, domain, overwrite, overwrite_widecast) ==
    LET rs1 == add_domain(rs, domain, TRUE)
        i == DomainIndex(rs1, domain)
    IN IF add_router_raises(rs1[i], path, FALSE)
       THEN [routes |-> rs1, ret |-> FALSE, raised |-> TRUE]
       ELSE LET ar == add_router(rs1[i], path, FALSE)
                ah == PathRouter_add_handler(ar.d.routes[ar.index], method, handler,
                                             overwrite, overwrite_widecast)
            IN [routes |-> [rs1 EXCEPT ![i] = [ar.d EXCEPT !.routes[ar.index] = ah.r]],
                ret |-> ah.ret, raised |-> FALSE]

DynamicRouter_add_handler(rs, method, path, handler, domain, overwrite, overwrite_widecast) ==
    LET rs1 == add_domain(rs, domain, FALSE)
        i == DomainIndex(rs1, domain)
    IN IF add_router_raises(rs1[i], path, FALSE)
       THEN [routes |-> rs1, ret |-> FALSE, raised |-> TRUE]
       ELSE LET ar == add_router(rs1[i], path, FALSE)
                ah == PathRouter_add_handler(ar.d.routes[ar.index], method, handler,
                                             overwrite, overwrite_widecast)
            IN [routes |-> [rs1 EXCEPT ![i] = [ar.d EXCEPT !.routes[ar.index] = ah.r]],
                ret |-> ah.ret, raised |-> FALSE]

DynamicRouter_get_handler(rs, method, path, domain, match_widecast) ==
    LET domain_router == get_domain(rs, domain)
    IN IF domain_router # None
       THEN LET path_router == get_router(domain_router[1], path)
            IN IF path_router # None
               THEN get_handler(path_router[1], method, match_widecast)
               ELSE None
       ELSE None

\* mutant: the handler is deleted and nothing else is taken out
DynamicRouter_del_handler_only(rs, method, path, domain) ==
    LET i == DomainIndex(rs, domain)
        j == IF i = 0 THEN 0 ELSE RouterIndex(rs[i], path)
    IN IF j # 0 /\ PathRouter_del_handler(rs[i].routes[j], method).ret
       THEN [routes |-> [rs EXCEPT ![i].routes[j] =
                           PathRouter_del_handler(rs[i].routes[j], method).r],
             ret |-> TRUE]
       ELSE [routes |-> rs, ret |-> FALSE]

DynamicRouter_del_handler(rs, method, path, domain) ==
    LET i == DomainIndex(rs, domain)
        unchanged == [routes |-> rs, ret |-> FALSE]
    IN IF i # 0
       THEN LET j == RouterIndex(rs[i], path)
            IN IF j # 0
               THEN LET dh == PathRouter_del_handler(rs[i].routes[j], method)
                        d1 == [rs[i] EXCEPT !.routes[j] = dh.r]
                        d2 == IF Cardinality(dh.r.routes) = 0 THEN del_router(d1, path).d ELSE d1
                        rs1 == [rs EXCEPT ![i] = d2]
                        rs2 == IF Len(d2.routes) # 0 THEN del_domain(rs1, domain).routes ELSE rs1
                    IN IF dh.ret THEN [routes |-> rs2, ret |-> TRUE] ELSE unchanged
               ELSE unchanged
       ELSE unchanged

\* mutant: goes on to the next matching domain when this one has no handler
RECURSIVE DynamicRouter_resolve_from_continue(_, _, _, _, _)
DynamicRouter_resolve_from_continue(rs, i, host, path, method) ==
    IF i > Len(rs) THEN NoResult
    ELSE IF domain_match(rs[i], host) /\ DomainRouter_resolve(rs[i], path, method).route # None
         THEN DomainRouter_resolve(rs[i], path, method)
         ELSE DynamicRouter_resolve_from_continue(rs, i + 1, host, path, method)

RECURSIVE DynamicRouter_resolve_from(_, _, _, _, _)
DynamicRouter_resolve_from(rs, i, host, path, method) ==
    IF i > Len(rs) THEN NoResult
    ELSE IF domain_match(rs[i], host)
         THEN DomainRouter_resolve(rs[i], path, method)
         ELSE DynamicRouter_resolve_from(rs, i + 1, host, path, method)

resolve(rs, host, path, method) == DynamicRouter_resolve_from(rs, 1, host, path, method)

(***************************************************************************)
(* Size of the router, for the bounds                                      *)
(***************************************************************************)
RECURSIVE SumSeq(_)
SumSeq(s) == IF s = <<>> THEN 0 ELSE Head(s) + SumSeq(Tail(s))

\* an empty path router counts as one entry
NumEntries(rs) ==
    SumSeq([i \in 1..Len(rs) |->
              SumSeq([j \in 1..Len(rs[i].routes) |->
                        IF rs[i].routes[j].routes = {} THEN 1
                        ELSE Cardinality(rs[i].routes[j].routes)])])

InBounds(rs) ==
    /\ Len(rs) <= MaxDomains
    /\ NumEntries(rs) <= MaxEntries

(***************************************************************************)
(* State machine.  A call is one step: it does everything the method does  *)
(* and leaves in op the method's name, its arguments and what it returned  *)
(* (raised: it raised ValueError instead of returning).  Return hands      *)
(* control back to the caller, which then makes the next call.             *)
(***************************************************************************)
Call(name, domain, path, method, handler, flags, ret, raised) ==
    [name |-> name, domain |-> domain, path |-> path, method |-> method,
     handler |-> handler, flags |-> flags, ret |-> ret, raised |-> raised]

Idle == Call("idle", None, None, "", "", <<>>, FALSE, FALSE)

Init ==
    /\ routes = <<>>
    /\ handlers = <<>>
    /\ op = Idle
    /\ request = None

Return ==
    /\ op # Idle
    /\ op' = Idle
    /\ UNCHANGED <<routes, handlers, request>>

AddDomain(raw_domain, overwrite) ==
    /\ op = Idle
    /\ InBounds(add_domain(routes, raw_domain, overwrite))
    /\ routes' = add_domain(routes, raw_domain, overwrite)
    /\ op' = Call("add_domain", Some(raw_domain), None, "", "", <<overwrite>>, FALSE, FALSE)
    /\ UNCHANGED <<handlers, request>>

DelDomain(raw_domain) ==
    /\ op = Idle
    /\ routes' = del_domain(routes, raw_domain).routes
    /\ op' = Call("del_domain", Some(raw_domain), None, "", "", <<>>,
                  del_domain(routes, raw_domain).ret, FALSE)
    /\ UNCHANGED <<handlers, request>>

DelHandlers ==
    /\ op = Idle
    /\ routes' = <<>>
    /\ op' = Call("del_handlers", None, None, "", "", <<>>, FALSE, FALSE)
    /\ UNCHANGED <<handlers, request>>

\* get_domain(raw_domain).add_router(raw_path, overwrite)
AddRouter(raw_domain, raw_path, overwrite) ==
    LET i == DomainIndex(routes, raw_domain)
    IN /\ op = Idle
       /\ i # 0
       /\ IF add_router_raises(routes[i], raw_path, overwrite)
          THEN /\ routes' = routes
               /\ op' = Call("add_router", Some(raw_domain), Some(raw_path), "", "",
                             <<overwrite>>, FALSE, TRUE)
          ELSE /\ InBounds([routes EXCEPT ![i] = add_router(routes[i], raw_path, overwrite).d])
               /\ routes' = [routes EXCEPT ![i] = add_router(routes[i], raw_path, overwrite).d]
               /\ op' = Call("add_router", Some(raw_domain), Some(raw_path), "", "",
                             <<overwrite>>, FALSE, FALSE)
       /\ UNCHANGED <<handlers, request>>

\* get_domain(raw_domain).del_router(raw_path)
DelRouter(raw_domain, raw_path) ==
    LET i == DomainIndex(routes, raw_domain)
    IN /\ op = Idle
       /\ i # 0
       /\ routes' = [routes EXCEPT ![i] = del_router(routes[i], raw_path).d]
       /\ op' = Call("del_router", Some(raw_domain), Some(raw_path), "", "", <<>>,
                     del_router(routes[i], raw_path).ret, FALSE)
       /\ UNCHANGED <<handlers, request>>

AddHandler(method, path, handler, domain, overwrite, overwrite_widecast) ==
    LET res == DynamicRouter_add_handler(routes, method, path, handler, domain,
                                         overwrite, overwrite_widecast)
    IN /\ op = Idle
       /\ InBounds(res.routes)
       /\ routes' = res.routes
       /\ op' = Call("add_handler", Some(domain), Some(path), method, handler,
                     <<overwrite, overwrite_widecast>>, res.ret, res.raised)
       /\ UNCHANGED <<handlers, request>>

\* get_domain(domain).get_router(path).del_handler(method): del_handler of
\* the method table itself
PathDelHandler(method, path, domain) ==
    LET i == DomainIndex(routes, domain)
        j == IF i = 0 THEN 0 ELSE RouterIndex(routes[i], path)
    IN /\ op = Idle
       /\ j # 0
       /\ routes' = [routes EXCEPT ![i].routes[j] =
                       PathRouter_del_handler(routes[i].routes[j], method).r]
       /\ op' = Call("path_del_handler", Some(domain), Some(path), method, "", <<>>,
                     PathRouter_del_handler(routes[i].routes[j], method).ret, FALSE)
       /\ UNCHANGED <<handlers, request>>

DelHandler(method, path, domain) ==
    LET res == DynamicRouter_del_handler(routes, method, path, domain)
    IN /\ op = Idle
       /\ routes' = res.routes
       /\ op' = Call("del_handler", Some(domain), Some(path), method, "", <<>>, res.ret, FALSE)
       /\ UNCHANGED <<handlers, request>>

GetHandler(method, path, domain, match_widecast) ==
    /\ op = Idle
    /\ op' = Call("get_handler", Some(domain), Some(path), method, "", <<match_widecast>>,
                  DynamicRouter_get_handler(routes, method, path, domain, match_widecast), FALSE)
    /\ UNCHANGED <<routes, handlers, request>>

\* mutant: resolve is started while another call is between two statements
Resolve_preempting(host, path, method) ==
    /\ op' = Call("resolve", host, Some(path), method, "", <<>>,
                  resolve(routes, host, path, method), FALSE)
    /\ UNCHANGED <<routes, handlers, request>>

\* request.headers.get(HOST) = host, request.path = path, request.method = method
Resolve(host, path, method) ==
    /\ op = Idle
    /\ op' = Call("resolve", host, Some(path), method, "", <<>>,
                  resolve(routes, host, path, method), FALSE)
    /\ UNCHANGED <<routes, handlers, request>>

\* Router with two domains and the whole of the path and method tables; a call
\* is made when the one before it has returned
Next ==
    \/ op = Idle /\ \E d \in RawDomains, ow \in BOOLEAN : AddDomain(d, ow)
    \/ op = Idle /\ \E d \in RawDomains : DelDomain(d)
    \/ DelHandlers
    \/ op = Idle /\ \E t \in Targets, ow \in BOOLEAN : AddRouter(t[1], t[2], ow)
    \/ op = Idle /\ \E d \in RawDomains, ow \in BOOLEAN : AddRouter(d, PathBad, ow)
    \/ op = Idle /\ \E t \in Targets : DelRouter(t[1], t[2])
    \/ op = Idle /\ \E m \in MethodArgs, t \in Targets, h \in HandlerArgs,
                      ow \in BOOLEAN, oww \in BOOLEAN : AddHandler(m, t[2], h, t[1], ow, oww)
    \/ op = Idle /\ \E d \in RawDomains : AddHandler("GET", PathBad, "h1", d, TRUE, TRUE)
    \/ op = Idle /\ \E m \in MethodArgs, t \in Targets : DelHandler(m, t[2], t[1])
    \/ op = Idle /\ \E m \in MethodArgs, t \in Targets : PathDelHandler(m, t[2], t[1])
    \/ op = Idle /\ \E m \in MethodArgs, t \in Targets, mw \in BOOLEAN :
                      GetHandler(m, t[2], t[1], mw)
    \/ op = Idle /\ \E host \in Hosts, p \in RequestPaths, m \in MethodArgs : Resolve(host, p, m)
    \/ Return

Spec == Init /\ [][Next]_vars

\* Router with more domains and one handler per domain: the order of the
\* domain list
NextDomains ==
    \/ op = Idle /\ \E d \in OrderDomains, ow \in BOOLEAN : AddDomain(d, ow)
    \/ op = Idle /\ \E d \in OrderDomains : DelDomain(d)
    \/ op = Idle /\ \E h \in HandlerArgs, d \in OrderDomains :
                      AddHandler("GET", PathA, h, d, TRUE, TRUE)
    \/ op = Idle /\ \E host \in OrderHosts, m \in {"GET", "post"} : Resolve(host, PathA, m)
    \/ Return

SpecDomains == Init /\ [][NextDomains]_vars

\* Router used through DynamicRouter.add_handler with valid paths and
\* DynamicRouter.del_handler only
NextHandlers ==
    \/ op = Idle /\ \E m \in MethodArgs, t \in Targets, h \in HandlerArgs,
                      ow \in BOOLEAN, oww \in BOOLEAN : AddHandler(m, t[2], h, t[1], ow, oww)
    \/ op = Idle /\ \E m \in MethodArgs, t \in Targets : DelHandler(m, t[2], t[1])
    \/ Return

SpecHandlers == Init /\ [][NextHandlers]_vars

(***************************************************************************)
(* DynamicMiddleware: _handlers is a list of entries                       *)
(* (domain_suffix, middleware_name, middleware_handler).                   *)
(***************************************************************************)
MwSuffixes == {<<>>, <<"example.com">>, <<"org">>, ApiEx}

MwNames == {None, Some("n1")}

Middlewares == {"A", "B"}

MwHosts == {Some(ApiEx), Some(OtherOrg), None}

endswith(s, suffix) ==
    /\ Len(suffix) <= Len(s)
    /\ SubSeq(s, Len(s) - Len(suffix) + 1, Len(s)) = suffix

Entry(domain, name, middleware) == [domain |-> domain, name |-> name, handler |-> middleware]

\* the sort key: cmp(x, y) = 1 if y[0].endswith(x[0]) else -1
MiddlewareLt(hs) ==
    {<<i, j>> \in (1..Len(hs)) \X (1..Len(hs)) : ~endswith(hs[j].domain, hs[i].domain)}

sort_handlers(hs) == SortBy(hs, MiddlewareLt(hs))

DynamicMiddleware_add_handler(hs, middleware, domain) ==
    IF domain = None
    THEN [handlers |-> hs, ret |-> FALSE]
    ELSE [handlers |-> sort_handlers(Append(hs, Entry(domain[1], None, middleware))),
          ret |-> TRUE]

NameIndex(hs, name) ==
    LET S == {i \in 1..Len(hs) : hs[i].name = name}
    IN IF S = {} THEN 0 ELSE CHOOSE i \in S : \A j \in S : i <= j

\* mutant: with overwrite false an entry of a name that is present is added
add_named_handler_duplicate(hs, middleware, name, domain, overwrite) ==
    IF domain = None
    THEN [handlers |-> hs, ret |-> FALSE]
    ELSE IF name # None /\ NameIndex(hs, name) # 0 /\ overwrite
         THEN [handlers |-> sort_handlers([hs EXCEPT ![NameIndex(hs, name)] =
                                             Entry(domain[1], name, middleware)]),
               ret |-> TRUE]
         ELSE [handlers |-> sort_handlers(Append(hs, Entry(domain[1], name, middleware))),
               ret |-> TRUE]

\* mutant: an entry of the same name is replaced whatever the overwrite flag says
add_named_handler_always(hs, middleware, name, domain, overwrite) ==
    IF domain = None
    THEN [handlers |-> hs, ret |-> FALSE]
    ELSE IF name # None /\ NameIndex(hs, name) # 0
         THEN [handlers |-> sort_handlers([hs EXCEPT ![NameIndex(hs, name)] =
                                             Entry(domain[1], name, middleware)]),
               ret |-> TRUE]
         ELSE [handlers |-> sort_handlers(Append(hs, Entry(domain[1], name, middleware))),
               ret |-> TRUE]

add_named_handler(hs, middleware, name, domain, overwrite) ==
    IF domain = None
    THEN [handlers |-> hs, ret |-> FALSE]
    ELSE IF name # None /\ NameIndex(hs, name) # 0
         THEN IF overwrite
              THEN [handlers |-> sort_handlers([hs EXCEPT ![NameIndex(hs, name)] =
                                                  Entry(domain[1], name, middleware)]),
                    ret |-> TRUE]
              ELSE [handlers |-> hs, ret |-> FALSE]
         ELSE [handlers |-> sort_handlers(Append(hs, Entry(domain[1], name, middleware))),
               ret |-> TRUE]

del_named_handler(hs, name) ==
    IF name # None /\ NameIndex(hs, name) # 0 THEN RemoveAt(hs, NameIndex(hs, name)) ELSE hs

RECURSIVE Filter(_, _)
Filter(s, keep) ==
    IF s = <<>> THEN <<>>
    ELSE IF Head(s) \in keep THEN <<Head(s)>> \o Filter(Tail(s), keep) ELSE Filter(Tail(s), keep)

del_domain_handlers(hs, domain) ==
    IF domain # None
    THEN Filter(hs, {hs[i] : i \in {k \in 1..Len(hs) : hs[k].domain # domain[1]}})
    ELSE hs

del_matching_domain_handlers(hs, domain) ==
    IF domain # None
    THEN Filter(hs, {hs[i] : i \in {k \in 1..Len(hs) : ~endswith(hs[k].domain, domain[1])}})
    ELSE hs

\* the getter of the handlers property, entered with depth frames on the
\* stack: its body `return self.handlers` reads the property again, and the
\* call that would exceed the recursion limit raises RecursionError, which
\* no frame catches.  None: the read raised; Some(list): the list returned.
RECURSIVE handlers_property(_, _)
handlers_property(hs, depth) ==
    IF depth >= RecursionLimit THEN None ELSE handlers_property(hs, depth + 1)

\* iter(self._handlers)
DynamicMiddleware_iter(hs) == hs

\* __call__: the handler is wrapped by the entries in reversed list order;
\* a composed handler is the sequence of callables in the order in which
\* they are entered when it is awaited, the wrapped request handler last
Terminal == "handler"

\* mutant: every entry wraps, whatever its suffix
RECURSIVE rewrap_all(_, _, _, _)
rewrap_all(hs, i, domain, handler) ==
    IF i = 0 THEN handler
    ELSE rewrap_all(hs, i - 1, domain, <<hs[i].handler>> \o handler)

RECURSIVE rewrap(_, _, _, _)
rewrap(hs, i, domain, handler) ==
    IF i = 0 THEN handler
    ELSE IF domain = None
         THEN rewrap(hs, i - 1, domain, <<hs[i].handler>> \o handler)
         ELSE IF endswith(domain[1], hs[i].domain)
              THEN rewrap(hs, i - 1, domain, <<hs[i].handler>> \o handler)
              ELSE rewrap(hs, i - 1, domain, handler)

DynamicMiddleware_call(hs, domain) == rewrap(hs, Len(hs), domain, <<Terminal>>)

(***************************************************************************)
(* State machine of the middleware                                         *)
(***************************************************************************)
MwCall(name, domain, mwname, middleware, flags, ret) ==
    [name |-> name, domain |-> domain, mwname |-> mwname, handler |-> middleware,
     flags |-> flags, ret |-> ret]

MwAddHandler(middleware, domain) ==
    LET res == DynamicMiddleware_add_handler(handlers, middleware, domain)
    IN /\ op = Idle
       /\ Len(res.handlers) <= MaxMw
       /\ handlers' = res.handlers
       /\ op' = MwCall("mw_add_handler", domain, None, middleware, <<>>, res.ret)
       /\ UNCHANGED <<routes, request>>

MwAddNamedHandler(middleware, name, domain, overwrite) ==
    LET res == add_named_handler(handlers, middleware, name, domain, overwrite)
    IN /\ op = Idle
       /\ Len(res.handlers) <= MaxMw
       /\ handlers' = res.handlers
       /\ op' = MwCall("mw_add_named_handler", domain, name, middleware, <<overwrite>>, res.ret)
       /\ UNCHANGED <<routes, request>>

MwDelHandler(index) ==
    /\ op = Idle
    /\ index \in 0..(Len(handlers) - 1)
    /\ handlers' = RemoveAt(handlers, index + 1)
    /\ op' = MwCall("mw_del_handler", None, None, "", <<index>>, FALSE)
    /\ UNCHANGED <<routes, request>>

MwDelNamedHandler(name) ==
    /\ op = Idle
    /\ handlers' = del_named_handler(handlers, name)
    /\ op' = MwCall("mw_del_named_handler", None, name, "", <<>>, FALSE)
    /\ UNCHANGED <<routes, request>>

MwDelDomainHandlers(domain) ==
    /\ op = Idle
    /\ handlers' = del_domain_handlers(handlers, domain)
    /\ op' = MwCall("mw_del_domain_handlers", domain, None, "", <<>>, FALSE)
    /\ UNCHANGED <<routes, request>>

MwDelMatchingDomainHandlers(domain) ==
    /\ op = Idle
    /\ handlers' = del_matching_domain_handlers(handlers, domain)
    /\ op' = MwCall("mw_del_matching_domain_handlers", domain, None, "", <<>>, FALSE)
    /\ UNCHANGED <<routes, request>>

MwDelHandlers ==
    /\ op = Idle
    /\ handlers' = <<>>
    /\ op' = MwCall("mw_del_handlers", None, None, "", <<>>, FALSE)
    /\ UNCHANGED <<routes, request>>

\* a read of the handlers property; ret is None when the read raised
MwHandlers ==
    /\ op = Idle
    /\ op' = MwCall("mw_handlers", None, None, "", <<>>, handlers_property(handlers, 0))
    /\ UNCHANGED <<routes, handlers, request>>

\* request.headers.get(HOST) = domain; ret is the composed handler
MwCompose(domain) ==
    /\ op = Idle
    /\ op' = MwCall("mw_call", domain, None, "", <<>>, DynamicMiddleware_call(handlers, domain))
    /\ UNCHANGED <<routes, handlers, request>>

MwDomainArgs == {Some(s) : s \in MwSuffixes} \cup {None}

NextMw ==
    \/ op = Idle /\ \E m \in Middlewares, d \in MwDomainArgs : MwAddHandler(m, d)
    \/ op = Idle /\ \E m \in Middlewares, n \in MwNames, d \in MwDomainArgs, ow \in BOOLEAN :
          MwAddNamedHandler(m, n, d, ow)
    \/ op = Idle /\ \E i \in 0..(MaxMw - 1) : MwDelHandler(i)
    \/ op = Idle /\ \E n \in MwNames : MwDelNamedHandler(n)
    \/ op = Idle /\ \E d \in MwDomainArgs : MwDelDomainHandlers(d)
    \/ op = Idle /\ \E d \in MwDomainArgs : MwDelMatchingDomainHandlers(d)
    \/ MwDelHandlers
    \/ op = Idle /\ \E host \in MwHosts : MwCompose(host)
    \/ MwHandlers
    \/ Return

SpecMw == Init /\ [][NextMw]_vars

(***************************************************************************)
(* A request inside DynamicMiddleware.__call__.  request is the frame of   *)
(* the coroutine: domain is the Host header, handler the chain composed by *)
(* the loop over reversed(self._handlers) (functools.partial binds each    *)
(* middleware and the handler wrapped so far when the loop runs), invoked  *)
(* the callables of the chain entered so far.  composed_from records the   *)
(* entry list the loop has read.  The coroutine is suspended between two   *)
(* steps, and the calls that change the entry list run there.              *)
(***************************************************************************)
ReqSuffixes == {<<"example.com">>, <<"org">>}

\* the entries (middleware, name, suffix) the calls register
ReqEntries == {<<"A", None, <<"example.com">>>>,
               <<"B", Some("n1"), <<"org">>>>,
               <<"A", Some("n1"), <<"example.com">>>>}

ReqHosts == {Some(ApiEx), None}

\* __call__ up to `await handler(request)`: the chain is composed
MwCallStart(domain) ==
    /\ op = Idle
    /\ request = None
    /\ request' = Some([domain |-> domain,
                        handler |-> DynamicMiddleware_call(handlers, domain),
                        invoked |-> <<>>,
                        composed_from |-> handlers])
    /\ UNCHANGED <<routes, handlers, op>>

\* mutant: the callable entered next is looked up in the entry list as it is
\* when the step is taken
MwCallInvoke_late ==
    /\ op = Idle
    /\ request # None
    /\ Len(request[1].invoked) < Len(request[1].handler)
    /\ LET now == DynamicMiddleware_call(handlers, request[1].domain)
           k == Len(request[1].invoked) + 1
       IN request' = Some([request[1] EXCEPT !.invoked =
                             Append(@, IF k <= Len(now) THEN now[k] ELSE Terminal)])
    /\ UNCHANGED <<routes, handlers, op>>

\* the callable entered last awaits the handler bound to it: the next
\* callable of the chain is entered and runs up to its own await
MwCallInvoke ==
    /\ op = Idle
    /\ request # None
    /\ Len(request[1].invoked) < Len(request[1].handler)
    /\ request' = Some([request[1] EXCEPT !.invoked =
                          Append(@, request[1].handler[Len(request[1].invoked) + 1])])
    /\ UNCHANGED <<routes, handlers, op>>

\* the wrapped request handler has run and the response is returned
MwCallReturn ==
    /\ op = Idle
    /\ request # None
    /\ Len(request[1].invoked) = Len(request[1].handler)
    /\ request' = None
    /\ UNCHANGED <<routes, handlers, op>>

\* One request at a time in __call__, and the calls that add, replace and
\* delete entries
NextRequest ==
    \/ op = Idle /\ \E e \in ReqEntries, ow \in BOOLEAN :
          MwAddNamedHandler(e[1], e[2], Some(e[3]), ow)
    \/ op = Idle /\ \E i \in 0..(MaxMw - 1) : MwDelHandler(i)
    \/ op = Idle /\ \E n \in MwNames : MwDelNamedHandler(n)
    \/ op = Idle /\ \E d \in ReqSuffixes : MwDelDomainHandlers(Some(d))
    \/ op = Idle /\ \E d \in ReqSuffixes : MwDelMatchingDomainHandlers(Some(d))
    \/ MwDelHandlers
    \/ \E host \in ReqHosts : MwCallStart(host)
    \/ MwCallInvoke
    \/ MwCallReturn
    \/ Return

SpecRequest == Init /\ [][NextRequest]_vars

(***************************************************************************)
(* Tasks of one asyncio event loop.  The loop runs a callback up to its    *)
(* next suspension point before it starts another.  add_domain and the     *)
(* middleware's add_handler are plain functions, taken here statement by   *)
(* statement: the list is modified, then list.sort runs, during which      *)
(* CPython keeps the list empty, then the sorted items are stored.  While  *)
(* a call is between two of its statements op holds its name with the step *)
(* and, as ret, the list before the call and the items being sorted.       *)
(* resolve awaits DomainRouter.resolve, a coroutine without await, and     *)
(* __call__ composes the chain before its only await: neither suspends     *)
(* while it reads the list.                                                *)
(***************************************************************************)
MidCall == {"add_domain:modified", "add_domain:sorting",
            "mw_add_handler:modified", "mw_add_handler:sorting"}

\* add_domain up to the statement before list.sort
AddDomainModify(raw_domain, overwrite) ==
    LET i == DomainIndex(routes, raw_domain)
        modified == IF i # 0 THEN [routes EXCEPT ![i] = DomainRouter(raw_domain)]
                    ELSE Append(routes, DomainRouter(raw_domain))
    IN /\ op = Idle
       /\ IF i # 0 /\ ~overwrite
          THEN /\ routes' = routes
               /\ op' = Call("add_domain", Some(raw_domain), None, "", "", <<overwrite>>,
                             FALSE, FALSE)
          ELSE /\ InBounds(modified)
               /\ routes' = modified
               /\ op' = Call("add_domain:modified", Some(raw_domain), None, "", "",
                             <<overwrite>>, [before |-> routes, pending |-> modified], FALSE)
       /\ UNCHANGED <<handlers, request>>

\* list.sort has taken the items out of the list
AddDomainSorting ==
    /\ op.name = "add_domain:modified"
    /\ routes' = <<>>
    /\ op' = [op EXCEPT !.name = "add_domain:sorting"]
    /\ UNCHANGED <<handlers, request>>

\* list.sort stores the sorted items and add_domain returns
AddDomainSorted ==
    /\ op.name = "add_domain:sorting"
    /\ routes' = sort_domains(op.ret.pending)
    /\ op' = Call("add_domain", op.domain, None, "", "", op.flags, FALSE, FALSE)
    /\ UNCHANGED <<handlers, request>>

\* the middleware's add_handler up to the statement before list.sort
MwAddHandlerModify(middleware, domain) ==
    LET modified == Append(handlers, Entry(domain, None, middleware))
    IN /\ op = Idle
       /\ Len(modified) <= MaxMw
       /\ handlers' = modified
       /\ op' = MwCall("mw_add_handler:modified", Some(domain), None, middleware, <<>>,
                       [before |-> handlers, pending |-> modified])
       /\ UNCHANGED <<routes, request>>

MwAddHandlerSorting ==
    /\ op.name = "mw_add_handler:modified"
    /\ handlers' = <<>>
    /\ op' = [op EXCEPT !.name = "mw_add_handler:sorting"]
    /\ UNCHANGED <<routes, request>>

MwAddHandlerSorted ==
    /\ op.name = "mw_add_handler:sorting"
    /\ handlers' = sort_handlers(op.ret.pending)
    /\ op' = MwCall("mw_add_handler", op.domain, None, op.handler, <<>>, TRUE)
    /\ UNCHANGED <<routes, request>>

\* Mutations in their statements and the two readers.  Handlers are added
\* to registered domains, so that add_domain is the only call that changes
\* the domain list.
NextAsync ==
    \/ \E d \in RawDomains, ow \in BOOLEAN : AddDomainModify(d, ow)
    \/ AddDomainSorting
    \/ AddDomainSorted
    \/ \E d \in RawDomains : DelDomain(d)
    \/ \E h \in HandlerArgs, d \in RawDomains :
          contains_domain(routes, d) /\ AddHandler("GET", PathA, h, d, TRUE, TRUE)
    \/ \E host \in Hosts : Resolve(host, PathA, "GET")
    \/ \E d \in MwSuffixes : MwAddHandlerModify("A", d)
    \/ MwAddHandlerSorting
    \/ MwAddHandlerSorted
    \/ MwDelHandlers
    \/ \E host \in MwHosts : MwCompose(host)
    \/ op.name \notin MidCall /\ Return

SpecAsync == Init /\ [][NextAsync]_vars

(***************************************************************************)
(* Properties                                                              *)
(***************************************************************************)
MatchingDomains(rs, host) == {i \in 1..Len(rs) : domain_match(rs[i], host)}

MinOf(S) == CHOOSE k \in S : \A j \in S : k <= j

\* C1: for every two distinct registered domains A and B such that A's
\* pattern used as a mask matches B's raw pattern string, B precedes A in
\* the domain list; resolve for host api.example.com uses the table of the
\* exact domain api.example.com when it is registered.
C1_SpecificDomainFirst ==
    /\ \A i, j \in 1..Len(routes) :
         (i # j /\ domain_match(routes[i], Some(routes[j].raw_domain))) => j < i
    /\ (op.name = "resolve" /\ op.domain = Some(ApiEx) /\ contains_domain(routes, ApiEx))
         => op.ret = DomainRouter_resolve(get_domain(routes, ApiEx)[1], op.path[1], op.method)

\* C2: resolve delegates to exactly one domain, the first in list order
\* whose domain_match(host) is true, and returns that domain's result (handler
\* and allowed methods) even when it has no handler; with no matching domain
\* the result is empty.
C2_FirstMatchingDomainOnly ==
    op.name = "resolve" =>
        LET S == MatchingDomains(routes, op.domain)
        IN IF S = {} THEN op.ret = NoResult
           ELSE op.ret = DomainRouter_resolve(routes[MinOf(S)], op.path[1], op.method)

\* C2 witness: the first matching domain has no handler for the request, a
\* later matching domain has one, and resolve returned no handler
C2_Witness ==
    /\ op.name = "resolve"
    /\ op.ret.route = None
    /\ \E i, j \in MatchingDomains(routes, op.domain) :
         /\ i = MinOf(MatchingDomains(routes, op.domain))
         /\ i < j
         /\ DomainRouter_resolve(routes[j], op.path[1], op.method).route # None

MatchingRouters(d, path) == {j \in 1..Len(d.routes) : match_info(d.routes[j], path) # None}

\* the path router that a resolve call recorded in op has consulted, if any
ResolvedDomain == routes[MinOf(MatchingDomains(routes, op.domain))]

ResolvedRouter == ResolvedDomain.routes[MinOf(MatchingRouters(ResolvedDomain, op.path[1]))]

ResolveReachedDomain == op.name = "resolve" /\ MatchingDomains(routes, op.domain) # {}

ResolveMatchedPath == ResolveReachedDomain /\ MatchingRouters(ResolvedDomain, op.path[1]) # {}

ExpectedAllowed(r) ==
    IF \E e \in r.routes : e.key = "*" THEN METH_ALL ELSE {e.key : e \in r.routes}

HasHandlerFor(r, method) == \E e \in r.routes : e.key = upper(method) \/ e.key = "*"

ResolveOutcome ==
    IF ~ResolveMatchedPath
    THEN op.ret = NoResult
    ELSE /\ op.ret.allowed_methods = ExpectedAllowed(ResolvedRouter)
         /\ IF HasHandlerFor(ResolvedRouter, op.method)
            THEN op.ret.route # None /\ op.ret.match_info # None
            ELSE op.ret.route = None /\ op.ret.match_info = None

\* C3 as stated: resolution within the chosen domain has three outcomes,
\* (match info with handler, allowed methods), (none, non-empty allowed
\* methods of the matcher) and (none, empty set); a matched path never yields
\* an empty allowed-methods set, an unmatched path never a non-empty one.
C3_Original ==
    ResolveReachedDomain =>
        /\ ResolveOutcome
        /\ ResolveMatchedPath <=> op.ret.allowed_methods # {}

\* C3 amended: the three outcomes as stated, except that the allowed-methods
\* set of a matched path is empty exactly when the method table of the
\* matcher is empty; an unmatched path never yields a non-empty set.
C3_ResolveOutcomes ==
    ResolveReachedDomain =>
        /\ ResolveOutcome
        /\ ~ResolveMatchedPath => op.ret.allowed_methods = {}
        /\ ResolveMatchedPath => (op.ret.allowed_methods = {} <=> ResolvedRouter.routes = {})

\* C3 witness: resolve matched a path whose matcher has handlers, but none
\* for the request method, and returned the matcher's allowed methods
C3_Witness ==
    /\ ResolveMatchedPath
    /\ ResolvedRouter.routes # {}
    /\ ~HasHandlerFor(ResolvedRouter, op.method)
    /\ op.ret.route = None
    /\ op.ret.allowed_methods # {}

\* the path router registered under the (domain, path) of the call o
CalledRouter(rs, o) == get_router(get_domain(rs, o.domain[1])[1], o.path[1])[1]

CalledRouterExists(rs, o) ==
    /\ get_domain(rs, o.domain[1]) # None
    /\ get_router(get_domain(rs, o.domain[1])[1], o.path[1]) # None

HandlerUnder(r, key) == (CHOOSE e \in r.routes : e.key = key).handler

\* C4: lookup by method returns the entry of the exact upper-cased method
\* when there is one; otherwise the wildcard entry, and only when
\* match_widecast is true; otherwise none.  resolve looks up with
\* match_widecast true: a wildcard-only table serves every method, and a
\* strict entry is preferred to the wildcard.
C4_StrictThenWidecast ==
    /\ (op.name = "get_handler" /\ CalledRouterExists(routes, op)) =>
         LET r == CalledRouter(routes, op)
         IN IF \E e \in r.routes : e.key = upper(op.method)
            THEN op.ret = Some(HandlerUnder(r, upper(op.method)))
            ELSE IF op.flags[1] /\ \E e \in r.routes : e.key = "*"
                 THEN op.ret = Some(HandlerUnder(r, "*"))
                 ELSE op.ret = None
    /\ ResolveMatchedPath =>
         LET r == ResolvedRouter
         IN /\ {e.key : e \in r.routes} = {"*"} =>
                 /\ op.ret.route # None
                 /\ op.ret.route[1].handler = HandlerUnder(r, "*")
            /\ (\E e \in r.routes : e.key = upper(op.method)) =>
                 /\ op.ret.route # None
                 /\ op.ret.route[1].handler = HandlerUnder(r, upper(op.method))

\* C4 witness: a path has a strict POST handler and a different wildcard
\* handler, and resolve with method "post" returned the strict one
C4_Witness ==
    /\ ResolveMatchedPath
    /\ op.method = "post"
    /\ {"POST", "*"} \subseteq {e.key : e \in ResolvedRouter.routes}
    /\ HandlerUnder(ResolvedRouter, "POST") # HandlerUnder(ResolvedRouter, "*")
    /\ op.ret.route[1].handler = HandlerUnder(ResolvedRouter, "POST")

\* C5: when a path has only a wildcard handler and a strict GET handler is
\* added with overwrite_widecast true, the wildcard handler is replaced by a
\* GET-only entry: afterwards GET resolves to the new handler, POST to no
\* handler, and the allowed methods are exactly {GET}.
C5_WidecastReplaced ==
    [][(/\ op'.name = "add_handler"
        /\ upper(op'.method) = "GET"
        /\ op'.flags[2]
        /\ CalledRouterExists(routes, op')
        /\ {e.key : e \in CalledRouter(routes, op').routes} = {"*"})
       => /\ op'.ret
          /\ CalledRouterExists(routes', op')
          /\ get_handler(CalledRouter(routes', op'), "GET", TRUE) = Some(op'.handler)
          /\ get_handler(CalledRouter(routes', op'), "POST", TRUE) = None
          /\ allowed_methods(CalledRouter(routes', op')) = {"GET"}]_vars

HandlersOf(entries) == [i \in 1..Len(entries) |-> entries[i].handler]

\* the entries whose suffix is empty or is a suffix of host, in list order
WrappedBy(host) == SelectSeq(handlers, LAMBDA e : e.domain = <<>> \/ endswith(host, e.domain))

\* C6: for every host and every two entries X and Y that both apply to the
\* host, X's suffix strictly longer than Y's, the composed chain invokes X
\* before Y before the terminal handler.
C6_SpecificWrapsOutermost ==
    (op.name = "mw_call" /\ op.domain # None) =>
        LET applied == WrappedBy(op.domain[1])
        IN /\ op.ret = HandlersOf(applied) \o <<Terminal>>
           /\ \A x, y \in 1..Len(applied) :
                Len(applied[x].domain) > Len(applied[y].domain) => x < y

\* C7 as stated: whatever the host, a request without Host header included,
\* the chain wraps exactly the entries whose suffix is empty or is a suffix
\* of the request host.
C7_Original ==
    op.name = "mw_call" =>
        op.ret = HandlersOf(SelectSeq(handlers,
                     LAMBDA e : \/ e.domain = <<>>
                                \/ (op.domain # None /\ endswith(op.domain[1], e.domain))))
                 \o <<Terminal>>

\* C7 amended: for a request with a Host header the chain wraps exactly the
\* entries whose suffix is empty or is a suffix of the host, in list order;
\* for a request without Host header it wraps every entry.
C7_OnlyMatchingSuffixWraps ==
    op.name = "mw_call" =>
        IF op.domain = None
        THEN op.ret = HandlersOf(handlers) \o <<Terminal>>
        ELSE op.ret = HandlersOf(WrappedBy(op.domain[1])) \o <<Terminal>>

\* C7 witness: host other.org, an example.com entry and an empty-suffix entry
\* are registered, and the chain is the empty-suffix entries only
C7_Witness ==
    /\ op.name = "mw_call"
    /\ op.domain = Some(OtherOrg)
    /\ \E i, j \in 1..Len(handlers) :
         handlers[i].domain = <<"example.com">> /\ handlers[j].domain = <<>>
    /\ \A i \in 1..Len(handlers) : handlers[i].domain \in {<<>>, <<"example.com">>}
    /\ Len(op.ret) = 1 + Cardinality({i \in 1..Len(handlers) : handlers[i].domain = <<>>})

Registered(rs, domain, path, key) ==
    \E i \in 1..Len(rs) :
        /\ rs[i].raw_domain = domain
        /\ \E j \in 1..Len(rs[i].routes) :
             /\ rs[i].routes[j].raw_path = path
             /\ \E e \in rs[i].routes[j].routes : e.key = key

MethodKeys == {"GET", "POST", "*"}

\* C8: a del_handler(method, path, domain) that returns True removes only
\* that handler: every handler registered under another (domain, path,
\* method) is registered afterwards as it was before.
C8_DeleteOnlyThatHandler ==
    [][(op'.name = "del_handler" /\ op'.ret) =>
          \A d \in RawDomains, p \in RawPaths, m \in MethodKeys :
              <<d, p, m>> # <<op'.domain[1], op'.path[1], upper(op'.method)>>
                  => DynamicRouter_get_handler(routes', m, p, d, FALSE)
                       = DynamicRouter_get_handler(routes, m, p, d, FALSE)]_vars

\* C9: when add_handler fails on a malformed path template the router is
\* afterwards as it was before the call.
C9_FailedAddLeavesRouter ==
    [][(op'.name = "add_handler" /\ op'.raised) => routes' = routes]_vars

\* C10: del_handler for a missing domain, path or method, del_router for a
\* missing raw path and del_domain for a missing raw domain return False
\* and leave the router as it was; repeating a deletion that returned True
\* returns False and changes nothing.
C10_DeleteMissingIsNoop ==
    [][/\ (op'.name = "del_handler"
             /\ ~Registered(routes, op'.domain[1], op'.path[1], upper(op'.method)))
          => (~op'.ret /\ routes' = routes)
       /\ (op'.name = "del_router"
             /\ ~\E i \in 1..Len(routes) :
                   /\ routes[i].raw_domain = op'.domain[1]
                   /\ \E j \in 1..Len(routes[i].routes) :
                        routes[i].routes[j].raw_path = op'.path[1])
          => (~op'.ret /\ routes' = routes)
       /\ (op'.name = "del_domain"
             /\ ~\E i \in 1..Len(routes) : routes[i].raw_domain = op'.domain[1])
          => (~op'.ret /\ routes' = routes)
       /\ (op'.name = "del_handler" /\ op'.ret)
          => DynamicRouter_del_handler(routes', op'.method, op'.path[1], op'.domain[1])
               = [routes |-> routes', ret |-> FALSE]
       /\ (op'.name = "del_router" /\ op'.ret)
          => del_router(routes'[DomainIndex(routes', op'.domain[1])], op'.path[1]).ret = FALSE
       /\ (op'.name = "del_domain" /\ op'.ret)
          => del_domain(routes', op'.domain[1]) = [routes |-> routes', ret |-> FALSE]]_vars

\* C10 witness: del_handler was called for a method that has no entry under
\* a registered domain and path that has other entries, and returned False
C10_Witness ==
    /\ op.name = "del_handler"
    /\ ~op.ret
    /\ CalledRouterExists(routes, op)
    /\ CalledRouter(routes, op).routes # {}
    /\ ~Registered(routes, op.domain[1], op.path[1], upper(op.method))

\* the call o is an add_handler on a registered path whose method table has
\* an entry under the upper-cased method of the call itself
AddOnOwnEntry(rs, o) ==
    /\ o.name = "add_handler"
    /\ CalledRouterExists(rs, o)
    /\ \E e \in CalledRouter(rs, o).routes : e.key = upper(o.method)

\* C11: add_handler on a method that already has its own entry (a strict
\* method with a strict entry, the wildcard with a wildcard entry): with
\* overwrite false it returns False and the method table is as before, the
\* old handler still returned; with overwrite true it returns True and the
\* entry under that method holds the new handler, the other entries as before.
C11_OverwriteOwnEntry ==
    [][AddOnOwnEntry(routes, op') =>
          LET key == upper(op'.method)
              old == CalledRouter(routes, op')
          IN /\ CalledRouterExists(routes', op')
             /\ IF op'.flags[1]
                THEN /\ op'.ret = TRUE
                     /\ CalledRouter(routes', op').routes =
                          {e \in old.routes : e.key # key}
                            \cup {[key |-> key, method |-> key, handler |-> op'.handler]}
                     /\ get_handler(CalledRouter(routes', op'), key, FALSE) = Some(op'.handler)
                ELSE /\ op'.ret = FALSE
                     /\ CalledRouter(routes', op').routes = old.routes
                     /\ get_handler(CalledRouter(routes', op'), key, FALSE)
                          = get_handler(old, key, FALSE)]_vars

\* C11 witness: add_handler with overwrite false was called with a handler
\* other than the registered one for a method that has its own entry, and
\* returned False
C11_Witness ==
    /\ AddOnOwnEntry(routes, op)
    /\ ~op.flags[1]
    /\ op.ret = FALSE
    /\ HandlerUnder(CalledRouter(routes, op), upper(op.method)) # op.handler

\* C12: within the chosen domain resolve uses the first path matcher in list
\* order whose full match of the request path succeeds: that matcher alone
\* gives the handler and the allowed methods, also when it has no handler
\* for the method and a later matching matcher has one; without a matching
\* matcher the result is empty.
C12_FirstMatchingRouterOnly ==
    ResolveReachedDomain =>
        LET S == MatchingRouters(ResolvedDomain, op.path[1])
        IN IF S = {} THEN op.ret = NoResult
           ELSE LET r == ResolvedDomain.routes[MinOf(S)]
                    route == get_handler_route(r, op.method, TRUE)
                IN /\ op.ret.allowed_methods = allowed_methods(r)
                   /\ op.ret.route = route
                   /\ op.ret.match_info = IF route = None THEN None
                                          ELSE match_info(r, op.path[1])

\* C12 witness: two matchers of the domain match the request path, the
\* earlier has no handler for the method, the later has one, and resolve
\* returned no handler with the allowed methods of the earlier
C12_Witness ==
    /\ ResolveReachedDomain
    /\ \E i, j \in MatchingRouters(ResolvedDomain, op.path[1]) :
         /\ i < j
         /\ i = MinOf(MatchingRouters(ResolvedDomain, op.path[1]))
         /\ ResolvedDomain.routes[i].routes # {}
         /\ get_handler_route(ResolvedDomain.routes[i], op.method, TRUE) = None
         /\ get_handler_route(ResolvedDomain.routes[j], op.method, TRUE) # None
    /\ op.ret.route = None
    /\ op.ret.allowed_methods # {}

\* C13: a request without Host header matches no domain, the catch-all
\* domain '*' included: resolve returns no match and the empty set of
\* allowed methods whatever is registered.
C13_NoHostMatchesNothing ==
    /\ \A i \in 1..Len(routes) : ~domain_match(routes[i], None)
    /\ (op.name = "resolve" /\ op.domain = None) => op.ret = NoResult

\* C13 witness: the catch-all domain has a handler for the path and method
\* of a request without Host header, and resolve returned the empty result
C13_Witness ==
    /\ op.name = "resolve"
    /\ op.domain = None
    /\ op.ret = NoResult
    /\ DynamicRouter_get_handler(routes, op.method, op.path[1], StarDomain, TRUE) # None
    /\ match_info(PathRouter(op.path[1]), op.path[1]) # None

\* every path router of the router
AllRouters(rs) == UNION {{rs[i].routes[j] : j \in 1..Len(rs[i].routes)} : i \in 1..Len(rs)}

\* C14: after any sequence of add_handler and del_handler calls, the allowed
\* methods of a path are all the recognised methods exactly when a handler
\* registered for the wildcard is in its table, and otherwise exactly the
\* strict methods that handlers of the table are registered for.
C14_AllowedMethods ==
    \A r \in AllRouters(routes) :
        allowed_methods(r) = IF \E e \in r.routes : e.method = METH_ANY
                             THEN METH_ALL
                             ELSE {e.method : e \in r.routes}

\* C15: del_handler of a method table removes at most the entry under the
\* upper-cased method given and returns whether there was one: a strict
\* method without an entry of its own returns False and the wildcard entry
\* stays, and deleting the wildcard leaves every strict entry; the other
\* method tables are as before.
C15_DeleteExactMethod ==
    [][op'.name = "path_del_handler" =>
          LET key == upper(op'.method)
              old == CalledRouter(routes, op')
          IN /\ CalledRouterExists(routes', op')
             /\ CalledRouter(routes', op').routes = {e \in old.routes : e.key # key}
             /\ op'.ret = (\E e \in old.routes : e.key = key)
             /\ \A d \in RawDomains, p \in RawPaths, m \in MethodKeys :
                  <<d, p, m>> # <<op'.domain[1], op'.path[1], key>>
                      => DynamicRouter_get_handler(routes', m, p, d, FALSE)
                           = DynamicRouter_get_handler(routes, m, p, d, FALSE)]_vars

\* C15 witness: del_handler of a strict method without an entry of its own
\* returned False on a table that holds the wildcard entry
C15_Witness ==
    /\ op.name = "path_del_handler"
    /\ upper(op.method) # METH_ANY
    /\ op.ret = FALSE
    /\ CalledRouterExists(routes, op)
    /\ \E e \in CalledRouter(routes, op).routes : e.key = METH_ANY

\* C16: del_handler of the router cascades one level only: a path router
\* whose last method entry it removes leaves its domain, and a registered
\* domain is still registered after every del_handler call, empty or not; a
\* domain leaves the list only by del_domain or del_handlers().
C16_DomainStaysRegistered ==
    [][/\ op'.name = "del_handler" =>
            /\ \A d \in RawDomains : contains_domain(routes, d) => contains_domain(routes', d)
            /\ (op'.ret /\ CalledRouterExists(routes, op')
                  /\ {e.key : e \in CalledRouter(routes, op').routes} = {upper(op'.method)})
                 => ~CalledRouterExists(routes', op')
       /\ (\E d \in RawDomains : contains_domain(routes, d) /\ ~contains_domain(routes', d))
            => op'.name \in {"del_domain", "del_handlers"}]_vars

Count(s, e) == Cardinality({i \in 1..Len(s) : s[i] = e})

\* the lists a and b hold the same entries, each as many times, in any order
SameEntries(a, b) ==
    /\ Len(a) = Len(b)
    /\ \A i \in 1..Len(a) : Count(a, a[i]) = Count(b, a[i])

\* C17: add_named_handler with a domain suffix (a string): when the name is
\* not null and an entry of that name is present, overwrite true replaces
\* that entry by (suffix, name, middleware) and returns True, overwrite false
\* returns False with the list unchanged in contents and order; when the
\* name is null or not present one entry is added and True returned.  The
\* list is re-sorted after a change, so the entries are compared as a bag.
C17_NamedHandlerOverwrite ==
    [][(op'.name = "mw_add_named_handler" /\ op'.domain # None) =>
          LET new == Entry(op'.domain[1], op'.mwname, op'.handler)
              present == op'.mwname # None /\ \E i \in 1..Len(handlers) :
                                                 handlers[i].name = op'.mwname
              first == MinOf({i \in 1..Len(handlers) : handlers[i].name = op'.mwname})
          IN IF present
             THEN IF op'.flags[1]
                  THEN /\ op'.ret = TRUE
                       /\ SameEntries(handlers', [handlers EXCEPT ![first] = new])
                  ELSE /\ op'.ret = FALSE
                       /\ handlers' = handlers
             ELSE /\ op'.ret = TRUE
                  /\ SameEntries(handlers', Append(handlers, new))]_vars

\* C17 witness: add_named_handler with overwrite false and a name that is
\* present was called with another suffix or middleware than the entry has,
\* and returned False
C17_Witness ==
    /\ op.name = "mw_add_named_handler"
    /\ op.domain # None
    /\ op.mwname # None
    /\ ~op.flags[1]
    /\ op.ret = FALSE
    /\ \E i \in 1..Len(handlers) :
         /\ handlers[i].name = op.mwname
         /\ handlers[i] # Entry(op.domain[1], op.mwname, op.handler)

\* the lists a reader may see while the call in op runs: the list before the
\* call and the list after it; outside a call, the list itself
DomainListsSeen ==
    IF op.name \in {"add_domain:modified", "add_domain:sorting"}
    THEN {op.ret.before, sort_domains(op.ret.pending)}
    ELSE {routes}

HandlerListsSeen ==
    IF op.name \in {"mw_add_handler:modified", "mw_add_handler:sorting"}
    THEN {op.ret.before, sort_handlers(op.ret.pending)}
    ELSE {handlers}

StrictBesideWidecast(rs, o) ==
    /\ o.name = "add_handler"
    /\ ~o.flags[2]
    /\ upper(o.method) # METH_ANY
    /\ CalledRouterExists(rs, o)
    /\ METH_ANY \in Keys(CalledRouter(rs, o).routes)
    /\ upper(o.method) \notin Keys(CalledRouter(rs, o).routes)

\* C19: a strict method without an entry of its own, added with
\* overwrite_widecast false to a path that has a wildcard handler, gets an
\* entry beside the wildcard: add_handler returns True, the method resolves
\* to the new handler, the wildcard entry is unchanged and every other
\* method resolves as before, to the wildcard handler unless it has an
\* entry of its own.
C19_StrictBesideWidecast ==
    [][StrictBesideWidecast(routes, op') =>
          LET key == upper(op'.method)
              old == CalledRouter(routes, op')
          IN /\ op'.ret = TRUE
             /\ CalledRouterExists(routes', op')
             /\ CalledRouter(routes', op').routes =
                  old.routes \cup {[key |-> key, method |-> key, handler |-> op'.handler]}
             /\ get_handler(CalledRouter(routes', op'), key, TRUE) = Some(op'.handler)
             /\ \A m \in METH_ALL \ {key} :
                  /\ get_handler(CalledRouter(routes', op'), m, TRUE) = get_handler(old, m, TRUE)
                  /\ m \notin Keys(old.routes) =>
                       get_handler(CalledRouter(routes', op'), m, TRUE)
                         = Some(HandlerUnder(old, METH_ANY))]_vars

\* C19 witness: after add_handler with overwrite_widecast false the path
\* has the strict entry with the handler of the call beside a wildcard
\* entry with another handler
C19_Witness ==
    /\ op.name = "add_handler"
    /\ ~op.flags[2]
    /\ op.ret = TRUE
    /\ upper(op.method) # METH_ANY
    /\ CalledRouterExists(routes, op)
    /\ {upper(op.method), METH_ANY} \subseteq Keys(CalledRouter(routes, op).routes)
    /\ HandlerUnder(CalledRouter(routes, op), upper(op.method)) = op.handler
    /\ HandlerUnder(CalledRouter(routes, op), METH_ANY) # op.handler

\* C20: add_router on a raw template that is registered: with overwrite
\* true the matcher at that position becomes a matcher of the same raw
\* template with an empty method table, the other matchers keeping their
\* positions; with overwrite false the list is untouched and the existing
\* matcher is the one returned.  On a raw template that is not registered a
\* matcher with an empty method table is appended at the end.  The matcher
\* returned is the one at that position.
C20_AddRouterInPlace ==
    [][(op'.name = "add_router" /\ ~op'.raised) =>
          LET i == DomainIndex(routes, op'.domain[1])
              old == routes[i].routes
              new == routes'[i].routes
              S == {j \in 1..Len(old) : old[j].raw_path = op'.path[1]}
              fresh == [raw_path |-> op'.path[1], routes |-> {}]
              returned == add_router(routes[i], op'.path[1], op'.flags[1]).index
          IN /\ Len(routes') = Len(routes)
             /\ \A k \in 1..Len(routes) : k # i => routes'[k] = routes[k]
             /\ routes'[i].raw_domain = routes[i].raw_domain
             /\ IF S # {}
                THEN /\ Len(new) = Len(old)
                     /\ \A j \in 1..Len(old) : j # MinOf(S) => new[j] = old[j]
                     /\ new[MinOf(S)] = IF op'.flags[1] THEN fresh ELSE old[MinOf(S)]
                     /\ returned = MinOf(S)
                ELSE /\ new = Append(old, fresh)
                     /\ returned = Len(new)]_vars

\* C20 witness: add_router with overwrite true has left an empty matcher of
\* its raw template in the first of two positions of the domain; a template
\* that was not registered would be in the last
C20_Witness ==
    /\ op.name = "add_router"
    /\ ~op.raised
    /\ op.flags[1]
    /\ get_domain(routes, op.domain[1]) # None
    /\ Len(get_domain(routes, op.domain[1])[1].routes) = 2
    /\ get_domain(routes, op.domain[1])[1].routes[1] = PathRouter(op.path[1])
    /\ get_domain(routes, op.domain[1])[1].routes[2].routes # {}

\* neither domain's pattern matches the raw pattern string of the other
Unrelated(x, y) ==
    /\ ~domain_match(x, Some(y.raw_domain))
    /\ ~domain_match(y, Some(x.raw_domain))

\* C21: the re-sort of the domain list in add_domain is stable for domains
\* of equal rank: two registered domains neither of whose patterns matches
\* the raw pattern of the other are, after every add_domain call, in the
\* relative order in which they were before it.
C21_StableForUnrelated ==
    [][op'.name \in {"add_domain", "add_handler"} =>
          \A a, b \in 1..Len(routes) :
              (a < b /\ Unrelated(routes[a], routes[b])
                 /\ DomainIndex(routes', routes[a].raw_domain) # 0
                 /\ DomainIndex(routes', routes[b].raw_domain) # 0)
              => DomainIndex(routes', routes[a].raw_domain)
                   < DomainIndex(routes', routes[b].raw_domain)]_vars

Position(s, e) == CHOOSE i \in 1..Len(s) : s[i] = e

\* C22: two entries with the same domain suffix keep their insertion order
\* in the entry list, whatever other entries are in the list: through every
\* add_handler or add_named_handler call the one that was earlier stays
\* earlier, and an entry that the call adds comes after the entries of its
\* suffix that were there.
C22_SameSuffixKeepOrder ==
    [][(op'.name \in {"mw_add_handler", "mw_add_named_handler"} /\ op'.domain # None) =>
          LET new == Entry(op'.domain[1], op'.mwname, op'.handler)
          IN /\ \A a, b \in 1..Len(handlers) :
                  (/\ a < b
                   /\ handlers[a].domain = handlers[b].domain
                   /\ Count(handlers, handlers[a]) = 1
                   /\ Count(handlers, handlers[b]) = 1
                   /\ Count(handlers', handlers[a]) = 1
                   /\ Count(handlers', handlers[b]) = 1)
                  => Position(handlers', handlers[a]) < Position(handlers', handlers[b])
             /\ (Len(handlers') = Len(handlers) + 1 /\ Count(handlers, new) = 0) =>
                  \A a \in 1..Len(handlers) :
                      (handlers[a].domain = new.domain /\ Count(handlers, handlers[a]) = 1)
                      => Position(handlers', handlers[a]) < Position(handlers', new)]_vars

\* C23: in every state reached from the empty middleware by add_handler,
\* add_named_handler and the del_ operations, no two entries have the same
\* name that is not null; entries without a name may be many.
C23_NamesUnique ==
    \A i, j \in 1..Len(handlers) :
        (i # j /\ handlers[i].name # None) => handlers[i].name # handlers[j].name

\* C23 witness: add_named_handler was called for a name that is present,
\* the list has one entry of that name and two entries without a name
C23_Witness ==
    /\ op.name = "mw_add_named_handler"
    /\ op.domain # None
    /\ op.mwname # None
    /\ Cardinality({i \in 1..Len(handlers) : handlers[i].name = op.mwname}) = 1
    /\ handlers[NameIndex(handlers, op.mwname)] # Entry(op.domain[1], op.mwname, op.handler)
    /\ Cardinality({i \in 1..Len(handlers) : handlers[i].name = None}) = 2

\* C24: in every state reached through add_domain, add_router, add_handler
\* and the delete operations, no two domain routers have the same raw domain,
\* and within one domain router no two path routers have the same raw path.
C24_NoDuplicatePatterns ==
    /\ \A i, j \in 1..Len(routes) :
           i # j => routes[i].raw_domain # routes[j].raw_domain
    /\ \A i \in 1..Len(routes) :
           \A j, k \in 1..Len(routes[i].routes) :
               j # k => routes[i].routes[j].raw_path # routes[i].routes[k].raw_path

\* C24 witness: add_router with overwrite was called for a path that was
\* already registered (it is the first of two matchers of its domain, so it
\* was not appended by this call), in a router with two domains
C24_Witness ==
    /\ op.name = "add_router"
    /\ op.flags = <<TRUE>>
    /\ ~op.raised
    /\ Len(routes) = 2
    /\ LET d == routes[DomainIndex(routes, op.domain[1])]
       IN /\ Len(d.routes) = 2
          /\ RouterIndex(d, op.path[1]) = 1

\* C25: in every state reached from the empty router by
\* DynamicRouter.add_handler with valid paths and DynamicRouter.del_handler
\* only, every path router of every domain has a method table that is not
\* empty.
C25_NoEmptyMatcher ==
    \A i \in 1..Len(routes) :
        \A j \in 1..Len(routes[i].routes) : routes[i].routes[j].routes # {}

\* C25 witness: del_handler deleted the last handler of a path router and
\* took the router out of its domain, which stays registered without path
\* routers beside another domain
C25_Witness ==
    /\ op.name = "del_handler"
    /\ op.ret
    /\ Len(routes) = 2
    /\ DomainIndex(routes, op.domain[1]) # 0
    /\ routes[DomainIndex(routes, op.domain[1])].routes = <<>>

\* C26: right after add_handler(m, h, overwrite, overwrite_widecast) has
\* returned True, for any method, flags and earlier table, the strict lookup
\* get_handler(m, match_widecast=False) gives h, del_handler(m) would return
\* True and leave no strict entry for m, and every entry of the table is
\* stored under the method it was registered for.
C26_AddLookupDeleteRoundTrip ==
    (op.name = "add_handler" /\ op.ret /\ ~op.raised) =>
        LET r == CalledRouter(routes, op)
            dh == PathRouter_del_handler(r, op.method)
        IN /\ get_handler(r, op.method, FALSE) = Some(op.handler)
           /\ dh.ret
           /\ get_handler(dh.r, op.method, FALSE) = None
           /\ \A e \in r.routes : e.key = e.method

\* the method table registered for (domain, path), None when there is none
TableAt(rs, domain, path) ==
    IF DomainIndex(rs, domain) = 0 THEN None
    ELSE IF RouterIndex(rs[DomainIndex(rs, domain)], path) = 0 THEN None
         ELSE Some(rs[DomainIndex(rs, domain)].routes[
                       RouterIndex(rs[DomainIndex(rs, domain)], path)].routes)

EntriesBut(table, keys) == {e \in table : e.key \notin keys}

\* C27: DynamicRouter.add_handler(method, path, handler, domain, ...) keeps
\* every registered domain, leaves the method table of every other
\* (domain, path) pair as it was, and in the table of its own pair changes at
\* most the entry of the method and, when the method is the wildcard or
\* overwrite_widecast applies to a strict method without an entry, the
\* wildcard entry; a table that was registered is reused.
C27_AddHandlerFrame ==
    [][op'.name = "add_handler" =>
          LET d0 == op'.domain[1]
              p0 == op'.path[1]
              m == upper(op'.method)
              old == TableAt(routes, d0, p0)
              new == TableAt(routes', d0, p0)
          IN /\ \A d \in RawDomains :
                    DomainIndex(routes, d) # 0 => DomainIndex(routes', d) # 0
             /\ \A d \in RawDomains, p \in RawPaths :
                    <<d, p>> # <<d0, p0>> => TableAt(routes', d, p) = TableAt(routes, d, p)
             /\ old # None =>
                    /\ new # None
                    /\ EntriesBut(new[1], {m, METH_ANY}) = EntriesBut(old[1], {m, METH_ANY})
                    /\ EntriesBut(new[1], {m}) # EntriesBut(old[1], {m}) =>
                           /\ op'.flags[2]
                           /\ m \notin Keys(old[1])
                           /\ METH_ANY \in Keys(old[1])
             /\ (old = None /\ new # None) => Keys(new[1]) = {m}]_vars

\* C27 witness: add_handler has registered a handler while another domain
\* holds a path router with a handler
C27_Witness ==
    /\ op.name = "add_handler"
    /\ op.ret
    /\ \E i \in 1..Len(routes) :
           /\ routes[i].raw_domain # op.domain[1]
           /\ \E j \in 1..Len(routes[i].routes) : routes[i].routes[j].routes # {}

\* C28: the callables entered for a request are, in order, those of the
\* chain composed from the entry list as it was when __call__ composed it,
\* whatever is added, replaced or deleted while the request is suspended;
\* composing leaves the entry list as it is, and a chain is composed from the
\* entry list of the moment, so that a change is seen by the requests
\* composed after it.
C28_ComposedChainFixed ==
    [][/\ request' # None =>
              LET r == request'[1]
                  chain == DynamicMiddleware_call(r.composed_from, r.domain)
              IN r.invoked = SubSeq(chain, 1, Len(r.invoked))
       /\ (request # None /\ request' # None) =>
              /\ request'[1].composed_from = request[1].composed_from
              /\ request'[1].domain = request[1].domain
       /\ (request = None /\ request' # None) =>
              /\ handlers' = handlers
              /\ request'[1].composed_from = handlers]_vars

\* C28 witness: every callable of a chain of three has been entered for the
\* request, and the entry list was changed after the chain was composed so
\* that a chain composed now would be another one
C28_Witness ==
    /\ request # None
    /\ Len(request[1].handler) = 3
    /\ request[1].invoked = request[1].handler
    /\ handlers # request[1].composed_from
    /\ DynamicMiddleware_call(handlers, request[1].domain) # request[1].handler

\* C29: a read of the handlers property returns the current list of
\* entries, the sequence that iterating the middleware gives.
C29_HandlersPropertyReturns ==
    op.name = "mw_handlers" => op.ret = Some(DynamicMiddleware_iter(handlers))

====
